---- MODULE Spec2Model ----
(***************************************************************************)
(* The iris-session pallet: validator registry, era/session hooks, reward  *)
(* points, storage provider pools, and the offchain data pipeline.         *)
(* Source: src/bin/node-template/pallets/iris-session/src/lib.rs           *)
(***************************************************************************)
EXTENDS Integers, Sequences, FiniteSets, TLC

(* ---------------------------------------------------------------- bounds *)

\* Longest data queue one offchain cycle takes its snapshot of.
MaxQueue == 2

\* Largest session/era index the rotation primitive hands to the hooks.
MaxEra == 2
\* Most entries the SessionParticipation lists hold together (caps the credit
\* producers).
MaxParticipation == 3
\* Longest OfflineValidators list (caps report_offence).
MaxOffline == 1

(* --------------------------------------------------- program constants  *)

\* T::MinAuthorities and T::MaxDeadSession of the runtime configuration.
MinAuthorities == 2
MaxDeadSession == 1

(* ------------------------------------------------------------- universe *)

Accounts == {"A", "B", "C"}
Root == "Root"
Origins == {Root, "C"}
\* RawOrigin::None, the origin of an unsigned extrinsic.
Unsigned == "None"
Assets == {"X", "Y"}
Eras == 0..MaxEra
\* initial_validators of the genesis configuration (at least 2 entries).
GenesisValidators == {<<"A", "B">>}

\* ipfs public keys and multiaddresses; NoKey is the empty Vec<u8> of ValueQuery
PublicKeys == {"k1", "k2"}
NoKey == ""
Multiaddrs == {"m1", "m2"}
\* The ipfs public key the Identity request of this node answers with.
NodeKey == "k1"

None == <<>>
\* No offchain worker is running on this node.
OcwIdle == [status |-> "idle", is_validator |-> FALSE, can_sign |-> FALSE,
            data_queue |-> <<>>, log |-> <<>>]
Some(x) == <<x>>

(* ------------------------------------------------------------- helpers  *)

Range(s) == {s[i] : i \in 1..Len(s)}
Contains(s, x) == x \in Range(s)
\* Vec::retain(|v| *v != x)
RetainNe(s, x) == SelectSeq(s, LAMBDA v : v # x)
\* Vec::retain(|v| !set.contains(v))
RetainNotIn(s, set) == SelectSeq(s, LAMBDA v : v \notin set)
\* usize::saturating_sub(1)
SaturatingSub1(n) == IF n = 0 THEN 0 ELSE n - 1

VARIABLES
    Validators,             \* Vec<AccountId>
    ApprovedValidators,     \* Vec<AccountId>
    OfflineValidators,      \* Vec<AccountId>
    UnproductiveSessions,   \* AccountId -> u32 (ValueQuery)
    CurrentEra,             \* Option<EraIndex>
    ActiveEra,              \* Option<EraIndex>
    ErasRewardPoints,       \* (EraIndex, AssetId) -> EraRewardPoints
    SessionParticipation,   \* EraIndex -> Vec<AccountId>
    QueuedStorageProviders, \* AssetId -> Vec<AccountId>
    StorageProviders,       \* AssetId -> Vec<AccountId>
    Pinners,                \* AssetId -> Vec<AccountId>
    BootstrapNodes,         \* ipfs public key -> Vec<OpaqueMultiaddr>
    SubstrateIpfsBridge,    \* AccountId -> ipfs public key (ValueQuery)
    asset_ids,              \* pallet_iris_assets: the asset ids that exist
    last,                   \* the last call applied and its DispatchResult
    ocw,                    \* the offchain worker run of this node
    absences                \* AccountId -> the consecutive sweeps, up to now, that
                            \* found the validator without participation

vars == <<Validators, ApprovedValidators, OfflineValidators, UnproductiveSessions,
          CurrentEra, ActiveEra, ErasRewardPoints, SessionParticipation,
          QueuedStorageProviders, StorageProviders, Pinners,
          BootstrapNodes, SubstrateIpfsBridge, asset_ids, last, ocw, absences>>

\* The pallet storage, without the records kept about calls and the worker.
storage == <<Validators, ApprovedValidators, OfflineValidators, UnproductiveSessions,
             CurrentEra, ActiveEra, ErasRewardPoints, SessionParticipation,
             QueuedStorageProviders, StorageProviders, Pinners,
             BootstrapNodes, SubstrateIpfsBridge, asset_ids>>

registryVars == <<Validators, ApprovedValidators, OfflineValidators, UnproductiveSessions>>
eraVars == <<CurrentEra, ActiveEra>>
rewardVars == <<ErasRewardPoints, SessionParticipation>>
poolVars == <<QueuedStorageProviders, StorageProviders, Pinners>>
identityVars == <<BootstrapNodes, SubstrateIpfsBridge>>

\* The record kept of the last call: who called, the account and asset it
\* names, the session index of a hook (-1 otherwise), the result, how many
\* accounts the call took out of Validators, how many it moved into
\* StorageProviders, and the new validator set a hook handed back (None when
\* it hands back nothing).
Call(call, who, id, asset, res) ==
    [call |-> call, who |-> who, id |-> id, asset |-> asset, index |-> -1, res |-> res,
     removed |-> 0, promoted |-> 0, returned |-> None]
Removal(call, who, id, res, removed) ==
    [call |-> call, who |-> who, id |-> id, asset |-> "-", index |-> -1, res |-> res,
     removed |-> removed, promoted |-> 0, returned |-> None]
Hook(call, index, removed, promoted, returned) ==
    [call |-> call, who |-> "-", id |-> "-", asset |-> "-", index |-> index, res |-> "Ok",
     removed |-> removed, promoted |-> promoted, returned |-> returned]

\* EraRewardPoints::default()
DefaultPoints == [total |-> 0, individual |-> <<>>]

Init ==
    /\ \E g \in GenesisValidators :
          /\ Validators = g
          /\ ApprovedValidators = g
    /\ OfflineValidators = <<>>
    /\ UnproductiveSessions = [a \in Accounts |-> 0]
    /\ CurrentEra = None
    /\ ActiveEra = None
    /\ ErasRewardPoints = [k \in Eras \X Assets |-> DefaultPoints]
    /\ SessionParticipation = [e \in Eras |-> <<>>]
    /\ QueuedStorageProviders = [a \in Assets |-> <<>>]
    /\ StorageProviders = [a \in Assets |-> <<>>]
    /\ Pinners = [a \in Assets |-> <<>>]
    /\ BootstrapNodes = <<>>
    /\ SubstrateIpfsBridge = [a \in Accounts |-> NoKey]
    /\ asset_ids = {}
    /\ last = Call("genesis", "-", "-", "-", "Ok")
    /\ ocw = OcwIdle
    /\ absences = [a \in Accounts |-> 0]

(* ------------------------------------------------- validator registry   *)

\* do_add_validator without the Duplicate guard.
do_add_validator_unguarded(validators, unproductive, validator_id) ==
    [res |-> "Ok",
     validators |-> Append(validators, validator_id),
     unproductive |-> [unproductive EXCEPT ![validator_id] = 0]]

\* do_add_validator: [res, validators, unproductive]
do_add_validator(validators, unproductive, validator_id) ==
    IF Contains(validators, validator_id)
    THEN [res |-> "Duplicate", validators |-> validators, unproductive |-> unproductive]
    ELSE [res |-> "Ok",
          validators |-> Append(validators, validator_id),
          unproductive |-> [unproductive EXCEPT ![validator_id] = 0]]

\* do_remove_validator with the floor compared before the subtraction.
do_remove_validator_floor_off_by_one(validators, validator_id) ==
    IF Len(validators) >= MinAuthorities
    THEN [res |-> "Ok", validators |-> RetainNe(validators, validator_id)]
    ELSE [res |-> "TooLowValidatorCount", validators |-> validators]

\* do_remove_validator: [res, validators]
do_remove_validator(validators, validator_id) ==
    IF SaturatingSub1(Len(validators)) >= MinAuthorities
    THEN [res |-> "Ok", validators |-> RetainNe(validators, validator_id)]
    ELSE [res |-> "TooLowValidatorCount", validators |-> validators]

\* approve_validator that stores nothing.
approve_validator_storing_nothing(approved, validator_id) ==
    IF Contains(approved, validator_id)
    THEN [res |-> "Duplicate", approved |-> approved]
    ELSE [res |-> "Ok", approved |-> approved]

\* approve_validator: [res, approved]
approve_validator(approved, validator_id) ==
    IF Contains(approved, validator_id)
    THEN [res |-> "Duplicate", approved |-> approved]
    ELSE [res |-> "Ok", approved |-> Append(approved, validator_id)]

\* unapprove_validator: the retained copy is a local that is never stored.
unapprove_validator(approved, validator_id) ==
    LET approved_set == RetainNe(approved, validator_id)
    IN  [res |-> "Ok", approved |-> approved]

\* T::AddRemoveOrigin::ensure_origin(origin)
ensure_add_remove_origin(origin) == origin = Root

add_validator(origin, validator_id) ==
    IF ~ensure_add_remove_origin(origin)
    THEN /\ last' = Call("add_validator", origin, validator_id, "-", "DispatchBadOrigin")
         /\ UNCHANGED <<registryVars, eraVars, rewardVars, poolVars, identityVars, asset_ids, ocw, absences>>
    ELSE LET added == do_add_validator(Validators, UnproductiveSessions, validator_id)
             approved == approve_validator(ApprovedValidators, validator_id)
         IN  /\ Validators' = added.validators
             /\ UnproductiveSessions' = added.unproductive
             /\ ApprovedValidators' =
                    IF added.res = "Ok" THEN approved.approved ELSE ApprovedValidators
             /\ last' = Call("add_validator", origin, validator_id, "-",
                             IF added.res = "Ok" THEN approved.res ELSE added.res)
             /\ absences' = IF added.res = "Ok"
                             THEN [absences EXCEPT ![validator_id] = 0] ELSE absences
             /\ UNCHANGED <<OfflineValidators, eraVars, rewardVars, poolVars, identityVars,
                            asset_ids, ocw>>

remove_validator(origin, validator_id) ==
    IF ~ensure_add_remove_origin(origin)
    THEN /\ last' = Call("remove_validator", origin, validator_id, "-", "DispatchBadOrigin")
         /\ UNCHANGED <<registryVars, eraVars, rewardVars, poolVars, identityVars, asset_ids, ocw, absences>>
    ELSE LET removed == do_remove_validator(Validators, validator_id)
             unapproved == unapprove_validator(ApprovedValidators, validator_id)
         IN  /\ Validators' = removed.validators
             /\ ApprovedValidators' =
                    IF removed.res = "Ok" THEN unapproved.approved ELSE ApprovedValidators
             /\ last' = Removal("remove_validator", origin, validator_id,
                                IF removed.res = "Ok" THEN unapproved.res ELSE removed.res,
                                Len(Validators) - Len(removed.validators))
             /\ UNCHANGED <<OfflineValidators, UnproductiveSessions, eraVars, rewardVars,
                            poolVars, identityVars, asset_ids, ocw, absences>>

\* add_validator_again without the approval check.
add_validator_again_result_unapproved(who, validator_id, approved) ==
    IF who # validator_id THEN "BadOrigin" ELSE "Ok"

\* add_validator_again: the result and the registry it leaves
add_validator_again_result(who, validator_id, approved) ==
    IF who # validator_id THEN "BadOrigin"
    ELSE IF ~Contains(approved, validator_id) THEN "ValidatorNotApproved"
    ELSE "Ok"

add_validator_again(who, validator_id) ==
    LET checked == add_validator_again_result(who, validator_id, ApprovedValidators)
        added == do_add_validator(Validators, UnproductiveSessions, validator_id)
    IN  /\ Validators' = IF checked = "Ok" THEN added.validators ELSE Validators
        /\ UnproductiveSessions' =
               IF checked = "Ok" THEN added.unproductive ELSE UnproductiveSessions
        /\ last' = Call("add_validator_again", who, validator_id, "-",
                        IF checked = "Ok" THEN added.res ELSE checked)
        /\ absences' = IF checked = "Ok" /\ added.res = "Ok"
                        THEN [absences EXCEPT ![validator_id] = 0] ELSE absences
        /\ UNCHANGED <<ApprovedValidators, OfflineValidators, eraVars, rewardVars,
                       poolVars, identityVars, asset_ids, ocw>>

(* ------------------------------------------------------ reward ledger   *)

\* The credit without the increment of the individual points.
credit_point_total_only(era_rewards, k) ==
    [total |-> era_rewards.total + 1, individual |-> era_rewards.individual]

\* The credit without `era_rewards.total += 1`.
credit_point_without_total(era_rewards, k) ==
    LET old == IF k \in DOMAIN era_rewards.individual THEN era_rewards.individual[k] ELSE 0
    IN  [total |-> era_rewards.total,
         individual |-> [j \in DOMAIN era_rewards.individual \cup {k} |->
                            IF j = k THEN old + 1 ELSE era_rewards.individual[j]]]

\* *era_rewards.individual.entry(k).or_default() += 1; era_rewards.total += 1
\* (u32 additions; MaxParticipation keeps every point far below 2^32)
credit_point(era_rewards, k) ==
    LET old == IF k \in DOMAIN era_rewards.individual THEN era_rewards.individual[k] ELSE 0
    IN  [total |-> era_rewards.total + 1,
         individual |-> [j \in DOMAIN era_rewards.individual \cup {k} |->
                            IF j = k THEN old + 1 ELSE era_rewards.individual[j]]]

\* The loop without `participants.push(v)`.
RECURSIVE credit_each_without_participation(_, _, _)
credit_each_without_participation(accounts, era_rewards, participants) ==
    IF accounts = <<>>
    THEN [era_rewards |-> era_rewards, participants |-> participants]
    ELSE credit_each_without_participation(Tail(accounts),
                     credit_point(era_rewards, Head(accounts)), participants)

\* the loop `for v in accounts { participants.push(v); credit v }`
RECURSIVE credit_each(_, _, _)
credit_each(accounts, era_rewards, participants) ==
    IF accounts = <<>>
    THEN [era_rewards |-> era_rewards, participants |-> participants]
    ELSE credit_each(Tail(accounts),
                     credit_point(era_rewards, Head(accounts)),
                     Append(participants, Head(accounts)))

\* The reward with ActiveEra::get().unwrap_or_default() for the era.
reward_accounts_default_era(active_era, asset_id, accounts, points, participation) ==
    LET era == IF active_era = None THEN 0 ELSE active_era[1]
        done == credit_each(accounts, points[<<era, asset_id>>], participation[era])
    IN  [points |-> [points EXCEPT ![<<era, asset_id>>] = done.era_rewards],
         participation |-> [participation EXCEPT ![era] = done.participants]]

\* `if let Some(active_era) = ActiveEra::get() { reward every account of the list }`
reward_accounts(active_era, asset_id, accounts, points, participation) ==
    IF active_era = None
    THEN [points |-> points, participation |-> participation]
    ELSE LET era == active_era[1]
             done == credit_each(accounts, points[<<era, asset_id>>], participation[era])
         IN  [points |-> [points EXCEPT ![<<era, asset_id>>] = done.era_rewards],
              participation |-> [participation EXCEPT ![era] = done.participants]]

\* The entries of all SessionParticipation lists together.
RECURSIVE ParticipationEntries(_)
ParticipationEntries(era) ==
    IF era < 0 THEN 0 ELSE Len(SessionParticipation[era]) + ParticipationEntries(era - 1)

\* The model's cap on the participation lists: room for n more entries.
RoomFor(n) ==
    IF ActiveEra = None THEN TRUE
    ELSE ParticipationEntries(MaxEra) + n <= MaxParticipation

\* pallet_iris_assets::submit_ipfs_add_results: the asset class is recorded.
iris_assets_submit_ipfs_add_results(ids, id) == ids \cup {id}

\* pallet_iris_assets::insert_pin_request: a request is registered only against
\* an asset class that exists; `accepted` is every other reason it may refuse.
iris_assets_insert_pin_request(ids, pool_id, accepted) == accepted /\ pool_id \in ids

submit_ipfs_add_results(who, id, ledger_ok) ==
    IF ~ledger_ok
    THEN /\ last' = Call("submit_ipfs_add_results", who, "-", id, "LedgerError")
         /\ UNCHANGED <<registryVars, eraVars, rewardVars, poolVars, identityVars, asset_ids, ocw, absences>>
    ELSE LET rewarded == reward_accounts(ActiveEra, id, Validators,
                                         ErasRewardPoints, SessionParticipation)
         IN  /\ RoomFor(Len(Validators))
             /\ asset_ids' = iris_assets_submit_ipfs_add_results(asset_ids, id)
             /\ ErasRewardPoints' = rewarded.points
             /\ SessionParticipation' = rewarded.participation
             /\ last' = Call("submit_ipfs_add_results", who, "-", id, "Ok")
             /\ UNCHANGED <<registryVars, eraVars, poolVars, identityVars, ocw, absences>>

submit_ipfs_identity(who, public_key, multiaddresses) ==
    /\ BootstrapNodes' = [k \in DOMAIN BootstrapNodes \cup {public_key} |->
                             IF k = public_key THEN multiaddresses ELSE BootstrapNodes[k]]
    /\ SubstrateIpfsBridge' = [SubstrateIpfsBridge EXCEPT ![who] = public_key]
    /\ last' = Call("submit_ipfs_identity", who, public_key, "-", "Ok")
    /\ UNCHANGED <<registryVars, eraVars, rewardVars, poolVars, asset_ids, ocw, absences>>

\* submit_ipfs_pin_result without the check on the candidates.
submit_ipfs_pin_result_result_uninvited(candidates, current_pinners, pinner) ==
    IF Contains(current_pinners, pinner) THEN "AlreadyPinned" ELSE "Ok"

\* submit_ipfs_pin_result without the check on the current pinners.
submit_ipfs_pin_result_result_repin(candidates, current_pinners, pinner) ==
    IF ~Contains(candidates, pinner) THEN "NotACandidate" ELSE "Ok"

submit_ipfs_pin_result_result(candidates, current_pinners, pinner) ==
    IF ~Contains(candidates, pinner) THEN "NotACandidate"
    ELSE IF Contains(current_pinners, pinner) THEN "AlreadyPinned"
    ELSE "Ok"

submit_ipfs_pin_result(who, asset_id, pinner) ==
    LET res == submit_ipfs_pin_result_result(QueuedStorageProviders[asset_id],
                                             Pinners[asset_id], pinner)
        rewarded == reward_accounts(ActiveEra, asset_id, <<pinner>>,
                                    ErasRewardPoints, SessionParticipation)
    IN  /\ res = "Ok" => RoomFor(1)
        /\ Pinners' = IF res = "Ok"
                      THEN [Pinners EXCEPT ![asset_id] = Append(@, pinner)]
                      ELSE Pinners
        /\ ErasRewardPoints' = IF res = "Ok" THEN rewarded.points ELSE ErasRewardPoints
        /\ SessionParticipation' =
               IF res = "Ok" THEN rewarded.participation ELSE SessionParticipation
        /\ last' = Call("submit_ipfs_pin_result", who, pinner, asset_id, res)
        /\ UNCHANGED <<registryVars, eraVars, QueuedStorageProviders, StorageProviders,
                       identityVars, asset_ids, ocw, absences>>

\* submit_rpc_ready rewarding only the storage providers that are validators.
submit_rpc_ready_validators_only(origin, asset_id) ==
    LET providers == SelectSeq(StorageProviders[asset_id], LAMBDA k : Contains(Validators, k))
        rewarded == reward_accounts(ActiveEra, asset_id, providers,
                                    ErasRewardPoints, SessionParticipation)
    IN  /\ RoomFor(Len(providers))
        /\ ErasRewardPoints' = rewarded.points
        /\ SessionParticipation' = rewarded.participation
        /\ last' = Call("submit_rpc_ready", origin, "-", asset_id, "Ok")
        /\ UNCHANGED <<registryVars, eraVars, poolVars, identityVars, asset_ids, ocw, absences>>

submit_rpc_ready(origin, asset_id) ==
    LET rewarded == reward_accounts(ActiveEra, asset_id, StorageProviders[asset_id],
                                    ErasRewardPoints, SessionParticipation)
    IN  /\ RoomFor(Len(StorageProviders[asset_id]))
        /\ ErasRewardPoints' = rewarded.points
        /\ SessionParticipation' = rewarded.participation
        /\ last' = Call("submit_rpc_ready", origin, "-", asset_id, "Ok")
        /\ UNCHANGED <<registryVars, eraVars, poolVars, identityVars, asset_ids, ocw, absences>>

(* ------------------------------------------------- unsigned extrinsics  *)

\* The calls of the pallet.
DispatchCalls ==
    {"add_validator", "remove_validator", "add_validator_again", "join_storage_pool",
     "submit_ipfs_add_results", "submit_ipfs_identity", "submit_ipfs_pin_result",
     "submit_rpc_ready"}

\* validate_unsigned that lets every call through.
validate_unsigned_any_call(call) == "Valid"

\* validate_unsigned: validate_transaction_parameters() builds a valid
\* transaction, every other call is InvalidTransaction::Call.
validate_unsigned(call) ==
    IF call = "submit_rpc_ready" THEN "Valid"
    ELSE IF call = "submit_ipfs_identity" THEN "Valid"
    ELSE "InvalidTransaction::Call"

\* An extrinsic that arrives unsigned: one that validate_unsigned refuses is
\* not applied; one it lets through is dispatched with RawOrigin::None, which
\* submit_rpc_ready never looks at and every other call refuses
\* (ensure_signed, ensure_origin).
unsigned_extrinsic(call, id, asset) ==
    LET validity == validate_unsigned(call)
    IN  IF validity # "Valid"
        THEN /\ last' = Call(call, Unsigned, id, asset, validity)
             /\ UNCHANGED <<storage, ocw, absences>>
        ELSE IF call = "submit_rpc_ready"
        THEN submit_rpc_ready(Unsigned, asset)
        ELSE /\ last' = Call(call, Unsigned, id, asset, "DispatchBadOrigin")
             /\ UNCHANGED <<storage, ocw, absences>>

(* ------------------------------------------------ storage provider pool *)

\* join_storage_pool without the check on the providers.
join_storage_pool_result_provider_again(who, candidates, providers, pin_request_ok) ==
    IF Contains(candidates, who) THEN "AlreadyACandidate"
    ELSE IF ~pin_request_ok THEN "CantCreateRequest"
    ELSE "Ok"

\* join_storage_pool without the check on the candidates.
join_storage_pool_result_requeue(who, candidates, providers, pin_request_ok) ==
    IF Contains(providers, who) THEN "AlreadyPinned"
    ELSE IF ~pin_request_ok THEN "CantCreateRequest"
    ELSE "Ok"

join_storage_pool_result(who, candidates, providers, pin_request_ok) ==
    IF Contains(candidates, who) THEN "AlreadyACandidate"
    ELSE IF Contains(providers, who) THEN "AlreadyPinned"
    ELSE IF ~pin_request_ok THEN "CantCreateRequest"
    ELSE "Ok"

join_storage_pool(who, pool_id, accepted) ==
    LET res == join_storage_pool_result(who, QueuedStorageProviders[pool_id],
                   StorageProviders[pool_id],
                   iris_assets_insert_pin_request(asset_ids, pool_id, accepted))
    IN  /\ QueuedStorageProviders' =
               IF res = "Ok"
               THEN [QueuedStorageProviders EXCEPT ![pool_id] = Append(@, who)]
               ELSE QueuedStorageProviders
        /\ last' = Call("join_storage_pool", who, "-", pool_id, res)
        /\ UNCHANGED <<registryVars, eraVars, rewardVars, StorageProviders, Pinners,
                       identityVars, asset_ids, ocw, absences>>

\* The promotion with StorageProviders::insert in place of the append.
select_for_asset_replacing(candidates, pinners, providers) ==
    [providers |-> SelectSeq(candidates, LAMBDA c : Contains(pinners, c)), queued |-> <<>>]

\* The promotion without the filter on the pinners.
select_for_asset_unfiltered(candidates, pinners, providers) ==
    [providers |-> providers \o candidates, queued |-> <<>>]

\* One asset of the loop of select_candidate_storage_providers: [providers, queued]
select_for_asset(candidates, pinners, providers) ==
    LET pinner_candidate_intersection == SelectSeq(candidates, LAMBDA c : Contains(pinners, c))
    IN  [providers |-> providers \o pinner_candidate_intersection, queued |-> <<>>]

\* select_candidate_storage_providers: [providers, queued] over every asset
select_candidate_storage_providers(ids, queued, pinners, providers) ==
    [providers |-> [a \in Assets |->
                       IF a \in ids
                       THEN select_for_asset(queued[a], pinners[a], providers[a]).providers
                       ELSE providers[a]],
     queued |-> [a \in Assets |->
                    IF a \in ids
                    THEN select_for_asset(queued[a], pinners[a], providers[a]).queued
                    ELSE queued[a]]]

(* -------------------------------------------------- era / session hooks *)

\* mark_for_removal, once per offender
report_offence(offenders) ==
    /\ Len(OfflineValidators) + Len(offenders) <= MaxOffline
    /\ OfflineValidators' = OfflineValidators \o offenders
    /\ last' = Call("report_offence", "-", "-", "-", "Ok")
    /\ UNCHANGED <<Validators, ApprovedValidators, UnproductiveSessions, eraVars,
                   rewardVars, poolVars, identityVars, asset_ids, ocw, absences>>

\* remove_offline_validators that leaves OfflineValidators as it was.
remove_offline_validators_keeping_queue(validators, offline) ==
    [validators |-> RetainNotIn(validators, Range(offline)), offline |-> offline]

\* remove_offline_validators: [validators, offline]
remove_offline_validators(validators, offline) ==
    LET validators_to_remove == Range(offline)
    IN  [validators |-> RetainNotIn(validators, validators_to_remove), offline |-> <<>>]

\* mark_dead_validators with the floor compared before the subtraction.
RECURSIVE mark_dead_loop_floor_off_by_one(_, _, _, _)
mark_dead_loop_floor_off_by_one(snapshot, partipating_validators, validators, unproductive) ==
    IF snapshot = <<>>
    THEN [validators |-> validators, unproductive |-> unproductive]
    ELSE LET acct == Head(snapshot)
         IN  IF Contains(partipating_validators, acct)
             THEN mark_dead_loop_floor_off_by_one(Tail(snapshot), partipating_validators,
                                                  validators, unproductive)
             ELSE IF unproductive[acct] <= MaxDeadSession
             THEN mark_dead_loop_floor_off_by_one(Tail(snapshot), partipating_validators,
                                                  validators,
                                                  [unproductive EXCEPT ![acct] = @ + 1])
             ELSE IF Len(validators) >= MinAuthorities
             THEN mark_dead_loop_floor_off_by_one(Tail(snapshot), partipating_validators,
                                                  RetainNe(validators, acct), unproductive)
             ELSE mark_dead_loop_floor_off_by_one(Tail(snapshot), partipating_validators,
                                                  validators, unproductive)

\* mark_dead_validators tolerating one more unproductive session.
RECURSIVE mark_dead_loop_late(_, _, _, _)
mark_dead_loop_late(snapshot, partipating_validators, validators, unproductive) ==
    IF snapshot = <<>>
    THEN [validators |-> validators, unproductive |-> unproductive]
    ELSE LET acct == Head(snapshot)
         IN  IF Contains(partipating_validators, acct)
             THEN mark_dead_loop_late(Tail(snapshot), partipating_validators,
                                      validators, unproductive)
             ELSE IF unproductive[acct] <= MaxDeadSession + 1
             THEN mark_dead_loop_late(Tail(snapshot), partipating_validators, validators,
                                      [unproductive EXCEPT ![acct] = @ + 1])
             ELSE IF SaturatingSub1(Len(validators)) >= MinAuthorities
             THEN mark_dead_loop_late(Tail(snapshot), partipating_validators,
                                      RetainNe(validators, acct), unproductive)
             ELSE mark_dead_loop_late(Tail(snapshot), partipating_validators,
                                      validators, unproductive)

\* mark_dead_validators without the look at the participants of the era.
RECURSIVE mark_dead_loop_ignoring_participation(_, _, _, _)
mark_dead_loop_ignoring_participation(snapshot, partipating_validators, validators, unproductive) ==
    IF snapshot = <<>>
    THEN [validators |-> validators, unproductive |-> unproductive]
    ELSE LET acct == Head(snapshot)
         IN  IF unproductive[acct] <= MaxDeadSession
             THEN mark_dead_loop_ignoring_participation(Tail(snapshot), partipating_validators,
                      validators, [unproductive EXCEPT ![acct] = @ + 1])
             ELSE IF SaturatingSub1(Len(validators)) >= MinAuthorities
             THEN mark_dead_loop_ignoring_participation(Tail(snapshot), partipating_validators,
                      RetainNe(validators, acct), unproductive)
             ELSE mark_dead_loop_ignoring_participation(Tail(snapshot), partipating_validators,
                      validators, unproductive)

\* mark_dead_validators counting a validator whose removal the floor blocks.
RECURSIVE mark_dead_loop_counting_blocked(_, _, _, _)
mark_dead_loop_counting_blocked(snapshot, partipating_validators, validators, unproductive) ==
    IF snapshot = <<>>
    THEN [validators |-> validators, unproductive |-> unproductive]
    ELSE LET acct == Head(snapshot)
         IN  IF Contains(partipating_validators, acct)
             THEN mark_dead_loop_counting_blocked(Tail(snapshot), partipating_validators,
                      validators, unproductive)
             ELSE IF unproductive[acct] <= MaxDeadSession
             THEN mark_dead_loop_counting_blocked(Tail(snapshot), partipating_validators,
                      validators, [unproductive EXCEPT ![acct] = @ + 1])
             ELSE IF SaturatingSub1(Len(validators)) >= MinAuthorities
             THEN mark_dead_loop_counting_blocked(Tail(snapshot), partipating_validators,
                      RetainNe(validators, acct), unproductive)
             ELSE mark_dead_loop_counting_blocked(Tail(snapshot), partipating_validators,
                      validators, [unproductive EXCEPT ![acct] = @ + 1])

\* mark_dead_validators: the loop over the snapshot Validators::get(): [validators, unproductive]
RECURSIVE mark_dead_loop(_, _, _, _)
mark_dead_loop(snapshot, partipating_validators, validators, unproductive) ==
    IF snapshot = <<>>
    THEN [validators |-> validators, unproductive |-> unproductive]
    ELSE LET acct == Head(snapshot)
         IN  IF Contains(partipating_validators, acct)
             THEN mark_dead_loop(Tail(snapshot), partipating_validators, validators, unproductive)
             ELSE IF unproductive[acct] <= MaxDeadSession
             THEN mark_dead_loop(Tail(snapshot), partipating_validators, validators,
                                 [unproductive EXCEPT ![acct] = @ + 1])
             ELSE IF SaturatingSub1(Len(validators)) >= MinAuthorities
             THEN mark_dead_loop(Tail(snapshot), partipating_validators,
                                 RetainNe(validators, acct), unproductive)
             ELSE mark_dead_loop(Tail(snapshot), partipating_validators, validators, unproductive)

mark_dead_validators(participation, era_index, validators, unproductive) ==
    mark_dead_loop(validators, participation[era_index], validators, unproductive)

\* How many accounts joined the provider lists of the assets of `assets`.
RECURSIVE Promotions(_, _, _)
Promotions(assets, before, after) ==
    IF assets = {} THEN 0
    ELSE LET a == CHOOSE x \in assets : TRUE
         IN  Len(after[a]) - Len(before[a]) + Promotions(assets \ {a}, before, after)

\* The rotation primitive hands out indices that never decrease.
NotBefore(index, era) == IF era = None THEN TRUE ELSE index >= era[1]

new_session(new_index) ==
    LET cleared == remove_offline_validators(Validators, OfflineValidators)
        selected == select_candidate_storage_providers(asset_ids, QueuedStorageProviders,
                                                       Pinners, StorageProviders)
    IN  /\ NotBefore(new_index, CurrentEra)
        /\ CurrentEra' = Some(new_index)
        /\ Validators' = cleared.validators
        /\ OfflineValidators' = cleared.offline
        /\ StorageProviders' = selected.providers
        /\ QueuedStorageProviders' = selected.queued
        /\ last' = Hook("new_session", new_index, Len(Validators) - Len(cleared.validators),
                        Promotions(Assets, StorageProviders, selected.providers),
                        Some(cleared.validators))
        /\ UNCHANGED <<ApprovedValidators, UnproductiveSessions, ActiveEra, rewardVars,
                       Pinners, identityVars, asset_ids, ocw, absences>>

end_session(end_index) ==
    LET swept == mark_dead_validators(SessionParticipation, end_index,
                                      Validators, UnproductiveSessions)
    IN  /\ Validators' = swept.validators
        /\ UnproductiveSessions' = swept.unproductive
        /\ last' = Hook("end_session", end_index, Len(Validators) - Len(swept.validators), 0, None)
        /\ absences' = [a \in Accounts |->
                            IF ~Contains(Validators, a) THEN absences[a]
                            ELSE IF Contains(SessionParticipation[end_index], a) THEN 0
                            ELSE IF absences[a] > MaxDeadSession THEN absences[a]
                            ELSE absences[a] + 1]
        /\ UNCHANGED <<ApprovedValidators, OfflineValidators, eraVars, rewardVars,
                       poolVars, identityVars, asset_ids, ocw>>

start_session(start_index) ==
    /\ NotBefore(start_index, ActiveEra)
    /\ ActiveEra' = Some(start_index)
    /\ last' = Hook("start_session", start_index, 0, 0, None)
    /\ UNCHANGED <<registryVars, CurrentEra, rewardVars, poolVars, identityVars,
                   asset_ids, ocw, absences>>

(* ------------------------------------------------ offchain data pipeline *)

\* What ipfs_request returns: Ok(response), or Err after try_wait timed out or
\* the node answered with an error (CantCreateRequest behaves as the other Errs).
Responses == {"Ok", "RequestTimeout", "RequestFailed"}

\* The commands of pallet_iris_assets::data_queue() used in this model.
AddBytesCmd == [kind |-> "AddBytes", acct |-> "B", owner |-> "-", asset |-> "X"]
CatBytesCmd == [kind |-> "CatBytes", acct |-> "A", owner |-> "B", asset |-> "X"]
PinCIDCmd == [kind |-> "PinCID", acct |-> "A", owner |-> "-", asset |-> "X"]
Commands == {AddBytesCmd, CatBytesCmd, PinCIDCmd}

\* One command's processing: the requests sent to the ipfs node with their
\* responses, the transaction handed to the pool (or "none"), and whether the
\* loop goes on ("continue") or handle_data_requests returns with that Err.
Handled(reqs, tx, next) == [reqs |-> reqs, tx |-> tx, next |-> next]

IsErr(response) == response # "Ok"

\* Signer::send_signed_transaction: one transaction per local account, none
\* when the keystore holds no account.
send_signed_transaction(can_sign, call) == IF can_sign THEN call ELSE "none"

\* The AddBytes arm that reports whatever the re-publish returned.
handle_add_bytes_reporting_failed_add(is_validator, can_sign, connect, cat, disconnect, add) ==
    IF ~is_validator THEN Handled(<<>>, "none", "continue")
    ELSE IF IsErr(connect) THEN Handled(<<<<"Connect", connect>>>>, "none", connect)
    ELSE IF IsErr(cat)
    THEN Handled(<<<<"Connect", connect>>, <<"CatBytes", cat>>>>, "none", "continue")
    ELSE IF IsErr(disconnect)
    THEN Handled(<<<<"Connect", connect>>, <<"CatBytes", cat>>, <<"Disconnect", disconnect>>>>,
                 "none", disconnect)
    ELSE Handled(<<<<"Connect", connect>>, <<"CatBytes", cat>>, <<"Disconnect", disconnect>>,
                   <<"AddBytes", add>>>>,
                 send_signed_transaction(can_sign, "submit_ipfs_add_results"), "continue")

\* The AddBytes arm of handle_data_requests.
handle_add_bytes(is_validator, can_sign, connect, cat, disconnect, add) ==
    IF ~is_validator THEN Handled(<<>>, "none", "continue")
    ELSE IF IsErr(connect) THEN Handled(<<<<"Connect", connect>>>>, "none", connect)
    ELSE IF IsErr(cat)
    THEN Handled(<<<<"Connect", connect>>, <<"CatBytes", cat>>>>, "none", "continue")
    ELSE IF IsErr(disconnect)
    THEN Handled(<<<<"Connect", connect>>, <<"CatBytes", cat>>, <<"Disconnect", disconnect>>>>,
                 "none", disconnect)
    ELSE IF IsErr(add)
    THEN Handled(<<<<"Connect", connect>>, <<"CatBytes", cat>>, <<"Disconnect", disconnect>>,
                   <<"AddBytes", add>>>>, "none", "continue")
    ELSE Handled(<<<<"Connect", connect>>, <<"CatBytes", cat>>, <<"Disconnect", disconnect>>,
                   <<"AddBytes", add>>>>,
                 send_signed_transaction(can_sign, "submit_ipfs_add_results"), "continue")

\* The CatBytes arm without the access check.
handle_cat_bytes_ungranted(public_key, expected_pub_key, owner, granted, identity, cat, submit_ok) ==
    IF IsErr(identity) THEN Handled(<<<<"Identity", identity>>>>, "none", identity)
    ELSE IF public_key # expected_pub_key
    THEN Handled(<<<<"Identity", identity>>>>, "none", "BadOrigin")
    ELSE IF IsErr(cat)
    THEN Handled(<<<<"Identity", identity>>, <<"CatBytes", cat>>>>, "none", "continue")
    ELSE Handled(<<<<"Identity", identity>>, <<"CatBytes", cat>>>>, "submit_rpc_ready",
                 IF submit_ok THEN "continue" ELSE "CantCreateRequest")

\* The CatBytes arm: expected_pub_key is SubstrateIpfsBridge[requestor], granted
\* is pallet_iris_assets::asset_access(requestor, asset_id), submit is the
\* whether submit_unsigned_transaction accepted the call.
handle_cat_bytes(public_key, expected_pub_key, owner, granted, identity, cat, submit_ok) ==
    IF IsErr(identity) THEN Handled(<<<<"Identity", identity>>>>, "none", identity)
    ELSE IF public_key # expected_pub_key
    THEN Handled(<<<<"Identity", identity>>>>, "none", "BadOrigin")
    ELSE IF owner # granted
    THEN Handled(<<<<"Identity", identity>>>>, "none", "InsufficientBalance")
    ELSE IF IsErr(cat)
    THEN Handled(<<<<"Identity", identity>>, <<"CatBytes", cat>>>>, "none", "continue")
    ELSE Handled(<<<<"Identity", identity>>, <<"CatBytes", cat>>>>, "submit_rpc_ready",
                 IF submit_ok THEN "continue" ELSE "CantCreateRequest")

\* The PinCID arm.
handle_pin_cid(is_validator, can_sign, public_key, expected_pub_key, identity, pin) ==
    IF ~is_validator THEN Handled(<<>>, "none", "continue")
    ELSE IF IsErr(identity) THEN Handled(<<<<"Identity", identity>>>>, "none", identity)
    ELSE IF public_key # expected_pub_key
    THEN Handled(<<<<"Identity", identity>>>>, "none", "BadOrigin")
    ELSE IF IsErr(pin)
    THEN Handled(<<<<"Identity", identity>>, <<"InsertPin", pin>>>>, "none", "continue")
    ELSE Handled(<<<<"Identity", identity>>, <<"InsertPin", pin>>>>,
                 send_signed_transaction(can_sign, "submit_ipfs_pin_result"), "continue")

\* The sequences over `set` of length at most n.
RECURSIVE SeqsUpTo(_, _)
SeqsUpTo(set, n) ==
    IF n = 0 THEN {<<>>}
    ELSE LET shorter == SeqsUpTo(set, n - 1)
         IN  shorter \cup {Append(q, c) : q \in {r \in shorter : Len(r) = n - 1}, c \in set}

DataQueues == SeqsUpTo(Commands, MaxQueue)

\* handle_data_requests up to its loop: the snapshot of the data queue is taken
\* and nothing is processed yet; an empty queue returns Ok at once.
handle_data_requests(is_validator, can_sign, data_queue) ==
    /\ ocw.status # "running"
    /\ ocw' = [status |-> IF data_queue = <<>> THEN "returnedOk" ELSE "running",
               is_validator |-> is_validator, can_sign |-> can_sign,
               data_queue |-> data_queue, log |-> <<>>]
    /\ UNCHANGED <<registryVars, eraVars, rewardVars, poolVars, identityVars, asset_ids, last, absences>>

\* The command the loop of handle_data_requests is at.
cmd == ocw.data_queue[Len(ocw.log) + 1]

\* One iteration of `for cmd in data_queue`: what was read from the chain for
\* the command is kept with the outcome; an Err ends handle_data_requests, the
\* last command ends it with Ok.
iterate(handled, expected_pub_key, granted) ==
    LET entry == [reqs |-> handled.reqs, tx |-> handled.tx, next |-> handled.next,
                  expected_pub_key |-> expected_pub_key, granted |-> granted]
        log == Append(ocw.log, entry)
    IN  /\ ocw' = [ocw EXCEPT !.log = log,
                              !.status = IF handled.next # "continue" THEN "returnedErr"
                                         ELSE IF Len(log) = Len(ocw.data_queue)
                                         THEN "returnedOk" ELSE "running"]
        /\ UNCHANGED <<registryVars, eraVars, rewardVars, poolVars, identityVars, asset_ids, last, absences>>

AddBytes(connect, cat, disconnect, add) ==
    /\ ocw.status = "running"
    /\ cmd.kind = "AddBytes"
    /\ iterate(handle_add_bytes(ocw.is_validator, ocw.can_sign, connect, cat, disconnect, add),
               "-", "-")

CatBytes(granted, identity, cat, submit_ok) ==
    /\ ocw.status = "running"
    /\ cmd.kind = "CatBytes"
    /\ iterate(handle_cat_bytes(NodeKey, SubstrateIpfsBridge[cmd.acct], cmd.owner, granted,
                                identity, cat, submit_ok),
               SubstrateIpfsBridge[cmd.acct], granted)

PinCID(identity, pin) ==
    /\ ocw.status = "running"
    /\ cmd.kind = "PinCID"
    /\ iterate(handle_pin_cid(ocw.is_validator, ocw.can_sign, NodeKey,
                              SubstrateIpfsBridge[cmd.acct], identity, pin),
               SubstrateIpfsBridge[cmd.acct], "-")

(* ------------------------------------------------ connection housekeeping *)

\* What ipfs_request(Connect) returns: Ok(IpfsResponse::Success) ("Ok"), Ok of
\* any other response ("NotSuccess"), or one of the Errs.
ConnectResponses == Responses \cup {"NotSuccess"}

\* The multiaddress lists a node publishes.
AddrLists == {<<>>, <<"m1">>, <<"m2">>, <<"m1", "m2">>, <<"m2", "m1">>}

\* Vec::pop() on a clone of the list: the last element, None on an empty list.
Pop(addrs) == IF addrs = <<>> THEN None ELSE Some(addrs[Len(addrs)])

\* One run of connection_housekeeping: the requests sent to the ipfs node as
\* <<request, multiaddress, response>>, the transaction handed to the pool (or
\* "none"), the result ("Ok" or the Err returned), and the bootstrap entry
\* BootstrapNodes::iter().nth(0) gave (None when it was not asked or gave none).
Kept(reqs, tx, result, bootstrap_node) ==
    [reqs |-> reqs, tx |-> tx, result |-> result, bootstrap_node |-> bootstrap_node]

\* connection_housekeeping: nth0 is what BootstrapNodes::iter().nth(0) gives,
\* identity, first and second are the responses of the ipfs node.
connection_housekeeping_run(bootstrap_nodes, nth0, can_sign, identity, first, second) ==
    LET id_req == <<<<"Identity", "-", identity>>>>
        tx == send_signed_transaction(can_sign, "submit_ipfs_identity")
    IN  IF IsErr(identity) THEN Kept(id_req, "none", identity, None)
        ELSE IF NodeKey \in DOMAIN bootstrap_nodes THEN Kept(id_req, "none", "Ok", None)
        ELSE IF nth0 = None THEN Kept(id_req, tx, "Ok", None)
        ELSE IF Pop(bootstrap_nodes[nth0[1]]) = None THEN Kept(id_req, tx, "Ok", nth0)
        ELSE LET bootnode_maddr == Pop(bootstrap_nodes[nth0[1]])[1]
                 next_bootnode_maddr == Pop(bootstrap_nodes[nth0[1]])[1]
                 one == Append(id_req, <<"Connect", bootnode_maddr, first>>)
                 two == Append(one, <<"Connect", next_bootnode_maddr, second>>)
             IN  IF first = "Ok" THEN Kept(one, tx, "Ok", nth0)
                 ELSE IF first # "NotSuccess" THEN Kept(one, "none", first, nth0)
                 ELSE IF second \in {"Ok", "NotSuccess"} THEN Kept(two, tx, "Ok", nth0)
                 ELSE Kept(two, "none", second, nth0)

\* The every-5th-block run of the offchain worker; it reads the chain state of
\* its block and hands its transaction to the pool.
connection_housekeeping(nth0, can_sign, identity, first, second) ==
    /\ ocw.status # "running"
    /\ IF DOMAIN BootstrapNodes = {} THEN nth0 = None
       ELSE nth0 # None /\ nth0[1] \in DOMAIN BootstrapNodes
    /\ ocw' = [status |-> "housekeeping", is_validator |-> FALSE, can_sign |-> can_sign,
               data_queue |-> <<>>,
               log |-> <<connection_housekeeping_run(BootstrapNodes, nth0, can_sign,
                                                     identity, first, second)>>]
    /\ UNCHANGED <<registryVars, eraVars, rewardVars, poolVars, identityVars, asset_ids, last, absences>>

(* ------------------------------------------------------- specifications *)

\* The validator registry under dispatch, offence reports and session rotation.
\* The rotation primitive ends session i after it has planned session i + 1.
NextRegistry ==
    \/ \E origin \in Origins, id \in Accounts : add_validator(origin, id)
    \/ \E origin \in Origins, id \in Accounts : remove_validator(origin, id)
    \/ \E who \in Accounts, id \in Accounts : add_validator_again(who, id)
    \/ \E a \in Accounts : report_offence(<<a>>)
    \/ \E i \in Eras : new_session(i)
    \/ \E i \in Eras : CurrentEra = Some(i + 1) /\ end_session(i)

SpecRegistry == Init /\ [][NextRegistry]_vars

\* A session rotation is under way: the rotation primitive has ended a session
\* and starts the next one in the same block, before any extrinsic.
Rotating == last.call = "end_session"

\* The dead-validator sweep against participation earned in the active era,
\* under the rotation primitive's order: start_session(0) at genesis, then
\* end_session(i) and start_session(i + 1) at every rotation.  No offence is
\* reported and no pool is joined here, so new_session is left out.
NextSweep ==
    \/ ~Rotating /\ \E id \in Accounts : add_validator(Root, id)
    \/ ~Rotating /\ \E id \in Accounts : remove_validator(Root, id)
    \/ ~Rotating /\ \E id \in Accounts : add_validator_again(id, id)
    \/ ~Rotating /\ submit_ipfs_add_results("A", "X", TRUE)
    \/ ActiveEra = None /\ start_session(0)
    \/ \E i \in Eras : Rotating /\ last.index = i /\ i + 1 \in Eras /\ start_session(i + 1)
    \/ ~Rotating /\ \E i \in Eras : ActiveEra = Some(i) /\ end_session(i)

SpecSweep == Init /\ [][NextSweep]_vars

\* The reward ledger and the storage pools under every credit producer.
NextRewards ==
    \/ add_validator(Root, "C")
    \/ \E accepted \in BOOLEAN : join_storage_pool("C", "X", accepted)
    \/ \E id \in Assets, ledger_ok \in BOOLEAN : submit_ipfs_add_results("A", id, ledger_ok)
    \/ \E pinner \in {"A", "C"} : submit_ipfs_pin_result("A", "X", pinner)
    \/ \E asset_id \in Assets : submit_rpc_ready(Unsigned, asset_id)
    \/ \E i \in Eras : new_session(i)
    \/ \E i \in Eras : start_session(i)

SpecRewards == Init /\ [][NextRewards]_vars

\* The offchain worker of one node against the identities published on chain;
\* the chain state an offchain cycle reads is the state of its block.
NextOffchain ==
    \/ /\ ocw.status # "running"
       /\ \E public_key \in PublicKeys : submit_ipfs_identity("A", public_key, <<"m1">>)
    \/ \E is_validator \in BOOLEAN, can_sign \in BOOLEAN, data_queue \in DataQueues :
          handle_data_requests(is_validator, can_sign, data_queue)
    \/ \E connect \in Responses, cat \in Responses, disconnect \in Responses, add \in Responses :
          AddBytes(connect, cat, disconnect, add)
    \/ \E granted \in {"B", "C"}, identity \in Responses, cat \in Responses,
          submit_ok \in BOOLEAN :
          CatBytes(granted, identity, cat, submit_ok)
    \/ \E identity \in Responses, pin \in Responses : PinCID(identity, pin)

SpecOffchain == Init /\ [][NextOffchain]_vars

\* Unsigned extrinsics of every call against a pool that submit_rpc_ready
\* rewards.
NextUnsigned ==
    \/ \E call \in DispatchCalls, id \in {"A", "C"}, asset \in Assets :
          unsigned_extrinsic(call, id, asset)
    \/ submit_ipfs_add_results("A", "X", TRUE)
    \/ join_storage_pool("C", "X", TRUE)
    \/ submit_ipfs_pin_result("A", "X", "C")
    \/ \E i \in Eras : new_session(i)
    \/ \E i \in Eras : start_session(i)

SpecUnsigned == Init /\ [][NextUnsigned]_vars

\* The storage pools of both assets with two joiners, before any era starts.
NextPool ==
    \/ \E id \in Assets : submit_ipfs_add_results("A", id, TRUE)
    \/ \E who \in {"B", "C"}, pool_id \in Assets, accepted \in BOOLEAN :
          join_storage_pool(who, pool_id, accepted)
    \/ \E asset_id \in Assets, pinner \in {"B", "C"} :
          submit_ipfs_pin_result("A", asset_id, pinner)
    \/ \E i \in Eras : new_session(i)

SpecPool == Init /\ [][NextPool]_vars

\* The connectivity manager of one node against the identities other nodes
\* and this node publish.
NextHousekeeping ==
    \/ \E who \in {"A", "B"}, public_key \in PublicKeys, multiaddresses \in AddrLists :
          submit_ipfs_identity(who, public_key, multiaddresses)
    \/ \E nth0 \in {None} \cup {Some(k) : k \in PublicKeys}, can_sign \in BOOLEAN,
          identity \in Responses, first \in ConnectResponses, second \in ConnectResponses :
          connection_housekeeping(nth0, can_sign, identity, first, second)

SpecHousekeeping == Init /\ [][NextHousekeeping]_vars

\* The session the rotation primitive plans with new_session: the first one
\* at genesis, afterwards the active one or the one after it.
Planned(i) == IF ActiveEra = None THEN i = 0 ELSE i \in {ActiveEra[1], ActiveEra[1] + 1}

\* A validator that is also a storage provider, under every way out of
\* Validators: remove_validator, the offline removal and the sweep.  An asset
\* is created once, and sessions end and start in the rotation primitive's
\* order: start_session(0) at genesis, then end_session(i) and
\* start_session(i + 1) at every rotation.
NextEviction ==
    \/ ~Rotating /\ add_validator(Root, "C")
    \/ ~Rotating /\ remove_validator(Root, "C")
    \/ ~Rotating /\ report_offence(<<"C">>)
    \/ ~Rotating /\ \E id \in Assets : id \notin asset_ids /\ submit_ipfs_add_results("A", id, TRUE)
    \/ ~Rotating /\ join_storage_pool("C", "X", TRUE)
    \/ ~Rotating /\ submit_ipfs_pin_result("A", "X", "C")
    \/ ~Rotating /\ submit_rpc_ready(Unsigned, "X")
    \/ ~Rotating /\ \E i \in Eras : Planned(i) /\ new_session(i)
    \/ ActiveEra = None /\ start_session(0)
    \/ \E i \in Eras : Rotating /\ last.index = i /\ i + 1 \in Eras /\ start_session(i + 1)
    \/ ~Rotating /\ \E i \in Eras : ActiveEra = Some(i) /\ end_session(i)

SpecEviction == Init /\ [][NextEviction]_vars

\* The transactions submit_ipfs_pin_result(asset, C) that the PinCID arm of
\* several nodes and cycles hands to the pool, signed by A or by B, applied in
\* any number and order among the joins of C, the session hooks and the
\* creation of the assets; no other call credits C here.
NextConfirm ==
    \/ \E id \in Assets : submit_ipfs_add_results("A", id, TRUE)
    \/ \E pool_id \in Assets : join_storage_pool("C", pool_id, TRUE)
    \/ \E who \in {"A", "B"}, asset_id \in Assets : submit_ipfs_pin_result(who, asset_id, "C")
    \/ \E i \in Eras : new_session(i)
    \/ \E i \in Eras : start_session(i)

SpecConfirm == Init /\ [][NextConfirm]_vars

(* --------------------------------------------------------------- claims *)

\* No account occurs more than once in Validators.
NoDuplicates == \A i, j \in 1..Len(Validators) : Validators[i] = Validators[j] => i = j

\* C1: every accepted remove_validator leaves at least MinAuthorities
\* validators, and a remove_validator rejected with TooLowValidatorCount leaves
\* Validators as it was; a call on a set of exactly MinAuthorities validators is
\* rejected.
C1_RemoveValidatorKeepsFloor ==
    [][last'.call = "remove_validator" /\ last'.who = Root =>
          /\ last'.res \in {"Ok", "TooLowValidatorCount"}
          /\ last'.res = "Ok" => Len(Validators') >= MinAuthorities
          /\ last'.res = "TooLowValidatorCount" => Validators' = Validators
          /\ Len(Validators) <= MinAuthorities => last'.res = "TooLowValidatorCount"]_vars

\* An accepted remove_validator took an account out and left exactly the floor.
C1_Witness ==
    /\ last.call = "remove_validator"
    /\ last.res = "Ok"
    /\ last.removed = 1
    /\ Len(Validators) = MinAuthorities

C3_NoDoubleAdd ==
    /\ [](NoDuplicates)
    /\ [][last'.call \in {"add_validator", "add_validator_again"}
             /\ Contains(Validators, last'.id) =>
             /\ last'.res # "Ok"
             /\ Validators' = Validators
             /\ (last'.call = "add_validator" /\ last'.who = Root) => last'.res = "Duplicate"
             /\ (last'.call = "add_validator_again" /\ last'.who = last'.id) =>
                    last'.res = "Duplicate"]_vars

\* add_validator by Root came back with Duplicate for a validator of the set.
C3_Witness ==
    /\ last.call = "add_validator"
    /\ last.who = Root
    /\ last.res = "Duplicate"
    /\ Contains(Validators, last.id)

\* C4 as stated: add_validator_again succeeds exactly when the caller is the
\* account named and the account is approved, and fails with BadOrigin or
\* ValidatorNotApproved otherwise.
C4_RejoinIffApproved ==
    last.call = "add_validator_again" =>
        /\ last.res = "Ok" <=> (last.who = last.id /\ Contains(ApprovedValidators, last.id))
        /\ last.who # last.id => last.res = "BadOrigin"
        /\ (last.who = last.id /\ ~Contains(ApprovedValidators, last.id)) =>
               last.res = "ValidatorNotApproved"
        /\ last.res \in {"Ok", "BadOrigin", "ValidatorNotApproved"}

\* C4 amended: add_validator_again succeeds exactly when the caller is the
\* account named, the account is approved and it is not in Validators; it
\* fails with BadOrigin for another caller, with ValidatorNotApproved for an
\* account that is not approved, and with Duplicate for an approved account
\* that is in Validators already.
C4_RejoinIffApprovedAndAbsent ==
    [][last'.call = "add_validator_again" =>
          /\ last'.res = "Ok" <=> /\ last'.who = last'.id
                                  /\ Contains(ApprovedValidators, last'.id)
                                  /\ ~Contains(Validators, last'.id)
          /\ last'.who # last'.id => last'.res = "BadOrigin"
          /\ (last'.who = last'.id /\ ~Contains(ApprovedValidators, last'.id)) =>
                 last'.res = "ValidatorNotApproved"
          /\ (/\ last'.who = last'.id
              /\ Contains(ApprovedValidators, last'.id)
              /\ Contains(Validators, last'.id)) => last'.res = "Duplicate"]_vars

\* An approved account that had left the set came back by add_validator_again.
C4_Witness ==
    /\ last.call = "add_validator_again"
    /\ last.res = "Ok"
    /\ last.who = last.id
    /\ Contains(Validators, last.id)

RECURSIVE SumOver(_, _)
SumOver(f, S) ==
    IF S = {} THEN 0
    ELSE LET x == CHOOSE y \in S : TRUE IN f[x] + SumOver(f, S \ {x})

CreditCalls == {"submit_ipfs_add_results", "submit_ipfs_pin_result", "submit_rpc_ready"}

\* C5: for every era and asset, the total of the reward points is the sum of
\* the individual points.
C5_TotalIsSumOfIndividual ==
    \A k \in Eras \X Assets :
        ErasRewardPoints[k].total =
            SumOver(ErasRewardPoints[k].individual, DOMAIN ErasRewardPoints[k].individual)

\* An era and asset hold points of several accounts, of two producers.
C5_Witness ==
    \E k \in Eras \X Assets :
        /\ ErasRewardPoints[k].total >= 3
        /\ Cardinality(DOMAIN ErasRewardPoints[k].individual) >= 3

\* C6: new_session empties the candidate queue of every asset and moves
\* exactly the candidates that confirmed their pin to the storage providers:
\* a candidate that confirmed is a provider afterwards and no candidate, one
\* that did not is neither.
C6_PromotionAtNewSession ==
    [][last'.call = "new_session" =>
          \A x \in Assets, c \in Accounts :
              Contains(QueuedStorageProviders[x], c) =>
                  /\ ~Contains(QueuedStorageProviders'[x], c)
                  /\ Contains(StorageProviders'[x], c) <=> Contains(Pinners[x], c)]_vars

\* new_session has just promoted C for asset X.
C6_Witness ==
    /\ last.call = "new_session"
    /\ last.promoted > 0
    /\ Contains(StorageProviders["X"], "C")
    /\ ~Contains(QueuedStorageProviders["X"], "C")

\* C7 as stated: a validator that the last sweeps, more than MaxDeadSession of
\* them in a row, found without participation is out of Validators after the
\* next end_session, unless at most MinAuthorities validators are left.
C7_RemovedAtNextSweep ==
    [][last'.call = "end_session" =>
          \A v \in Accounts :
              (Contains(Validators, v) /\ absences[v] > MaxDeadSession) =>
                  \/ ~Contains(Validators', v)
                  \/ Len(Validators') <= MinAuthorities]_vars

\* C7 amended: such a validator is out of Validators after the next
\* end_session if the era that ends holds no participation of it either,
\* unless at most MinAuthorities validators are left.
C7_RemovedAtNextAbsentSweep ==
    [][last'.call = "end_session" =>
          \A v \in Accounts :
              (/\ Contains(Validators, v)
               /\ absences[v] > MaxDeadSession
               /\ ~Contains(SessionParticipation[last'.index], v)) =>
                  \/ ~Contains(Validators', v)
                  \/ Len(Validators') <= MinAuthorities]_vars

\* end_session has just removed a validator that more than MaxDeadSession
\* sweeps in a row had found without participation.
C7_Witness ==
    /\ last.call = "end_session"
    /\ last.removed > 0
    /\ \E v \in Accounts : ~Contains(Validators, v) /\ absences[v] > MaxDeadSession

C9_FollowingCommandsProcessed ==
    ocw.status \in {"returnedOk", "returnedErr"} => Len(ocw.log) = Len(ocw.data_queue)

\* C10: submit_rpc_ready is submitted for a command only if the command is a
\* CatBytes, the Identity request succeeded with the key SubstrateIpfsBridge
\* holds for the requestor, the owner is the one the access grant names and
\* the CatBytes request succeeded; a failed CatBytes request submits nothing.
C10_ReadyOnlyAfterChecks ==
    \A i \in 1..Len(ocw.log) :
        LET entry == ocw.log[i]
            command == ocw.data_queue[i]
        IN  /\ entry.tx = "submit_rpc_ready" =>
                   /\ command.kind = "CatBytes"
                   /\ Contains(entry.reqs, <<"Identity", "Ok">>)
                   /\ entry.expected_pub_key = NodeKey
                   /\ entry.granted = command.owner
                   /\ Contains(entry.reqs, <<"CatBytes", "Ok">>)
            /\ (command.kind = "CatBytes"
                /\ \E r \in Responses \ {"Ok"} : Contains(entry.reqs, <<"CatBytes", r>>)) =>
                   entry.tx = "none"

\* A CatBytes command passed every check and submit_rpc_ready was submitted.
C10_Witness ==
    \E i \in 1..Len(ocw.log) :
        /\ ocw.data_queue[i].kind = "CatBytes"
        /\ ocw.log[i].tx = "submit_rpc_ready"
        /\ ocw.log[i].next = "continue"

\* C11: a call of the pallet that returns an error leaves the storage as it
\* was; an add_validator that fails with Duplicate on ApprovedValidators changes
\* neither Validators nor UnproductiveSessions.
C11_FailedCallChangesNothing ==
    [][last'.call \in DispatchCalls /\ last'.res # "Ok" => storage' = storage]_vars

\* C12: after an accepted remove_validator(id), id is not in ApprovedValidators
\* (so that add_validator_again(id) fails with ValidatorNotApproved).
C12_RemovedIsUnapproved ==
    last.call = "remove_validator" /\ last.res = "Ok" =>
        ~Contains(ApprovedValidators, last.id)

\* C13: remove_validator is rejected with TooLowValidatorCount exactly when
\* Validators with the id taken out has fewer than MinAuthorities members.
C13_RejectedIffBelowFloor ==
    [][last'.call = "remove_validator" /\ last'.who = Root =>
          (last'.res = "TooLowValidatorCount" <=>
               Len(RetainNe(Validators, last'.id)) < MinAuthorities)]_vars

\* C14: an unsigned extrinsic passes validate_unsigned exactly when its call
\* is submit_rpc_ready or submit_ipfs_identity; one of any other call is
\* rejected as InvalidTransaction::Call and leaves the storage as it was.
C14_UnsignedOnlyForTwoCalls ==
    [][last'.who = Unsigned =>
          /\ last'.res # "InvalidTransaction::Call" <=>
                 last'.call \in {"submit_rpc_ready", "submit_ipfs_identity"}
          /\ last'.call \notin {"submit_rpc_ready", "submit_ipfs_identity"} =>
                 storage' = storage]_vars

\* An unsigned submit_rpc_ready was let through and rewarded the provider.
C14_Witness ==
    /\ last.who = Unsigned
    /\ last.call = "submit_rpc_ready"
    /\ last.res = "Ok"
    /\ ActiveEra # None
    /\ ErasRewardPoints[<<ActiveEra[1], last.asset>>].total > 0
    /\ Contains(StorageProviders[last.asset], "C")

\* C15: join_storage_pool by a signed origin fails with AlreadyACandidate when
\* the origin is queued for the asset, with AlreadyPinned when it is a provider
\* of the asset and with CantCreateRequest when the pin request is refused (the
\* asset is unknown to the ledger); a failure leaves QueuedStorageProviders as
\* it was, a success appends the origin once to the asset's queue and changes
\* nothing else.
C15_JoinQueuesOnce ==
    [][last'.call = "join_storage_pool" =>
          LET who == last'.who
              pool_id == last'.asset
              queued == Contains(QueuedStorageProviders[pool_id], who)
              provider == Contains(StorageProviders[pool_id], who)
          IN  /\ queued => last'.res = "AlreadyACandidate"
              /\ provider => last'.res = "AlreadyPinned"
              /\ ~queued /\ ~provider /\ pool_id \notin asset_ids =>
                     last'.res = "CantCreateRequest"
              /\ last'.res \in {"Ok", "AlreadyACandidate", "AlreadyPinned", "CantCreateRequest"}
              /\ last'.res # "Ok" => QueuedStorageProviders' = QueuedStorageProviders
              /\ last'.res = "Ok" =>
                     /\ ~queued /\ ~provider
                     /\ QueuedStorageProviders' =
                            [QueuedStorageProviders EXCEPT ![pool_id] = Append(@, who)]
                     /\ Len(SelectSeq(QueuedStorageProviders'[pool_id], LAMBDA c : c = who)) = 1
                     /\ <<registryVars, eraVars, rewardVars, StorageProviders, Pinners,
                          identityVars, asset_ids>>' =
                        <<registryVars, eraVars, rewardVars, StorageProviders, Pinners,
                          identityVars, asset_ids>>]_vars

\* A provider of the asset asked to join again and was refused while another
\* account waited in the queue.
C15_Witness ==
    /\ last.call = "join_storage_pool"
    /\ last.res = "AlreadyPinned"
    /\ Contains(StorageProviders[last.asset], last.who)
    /\ QueuedStorageProviders[last.asset] # <<>>

\* The reward points after the step are those before it with one point more
\* for k, individually and in the total, under (active era, asset_id), or
\* the same points when no era is active.
PointsCreditedOnce(asset_id, k) ==
    IF ActiveEra = None
    THEN ErasRewardPoints' = ErasRewardPoints
    ELSE LET key == <<ActiveEra[1], asset_id>>
             before == ErasRewardPoints[key]
             after == ErasRewardPoints'[key]
             old == IF k \in DOMAIN before.individual THEN before.individual[k] ELSE 0
         IN  /\ \A other \in DOMAIN ErasRewardPoints :
                    other # key => ErasRewardPoints'[other] = ErasRewardPoints[other]
             /\ after.total = before.total + 1
             /\ DOMAIN after.individual = DOMAIN before.individual \cup {k}
             /\ after.individual[k] = old + 1
             /\ \A j \in DOMAIN before.individual :
                    j # k => after.individual[j] = before.individual[j]

\* C16 as stated: NotACandidate whenever the pinner is not queued and
\* AlreadyPinned whenever the pinner is among the pinners, whatever the queue.
C16_AlreadyPinnedWheneverPinned ==
    [][last'.call = "submit_ipfs_pin_result" =>
          LET pinner == last'.id
              asset_id == last'.asset
              candidate == Contains(QueuedStorageProviders[asset_id], pinner)
              pinned == Contains(Pinners[asset_id], pinner)
          IN  /\ ~candidate => last'.res = "NotACandidate"
              /\ pinned => last'.res = "AlreadyPinned"
              /\ last'.res # "Ok" => storage' = storage
              /\ last'.res = "Ok" =>
                     /\ candidate /\ ~pinned
                     /\ Pinners' = [Pinners EXCEPT ![asset_id] = Append(@, pinner)]
                     /\ PointsCreditedOnce(asset_id, pinner)]_vars

\* C16: submit_ipfs_pin_result fails with NotACandidate when the pinner is
\* not queued for the asset and, the pinner being queued, with AlreadyPinned
\* when it is among the asset's pinners; either failure changes no storage;
\* otherwise the pinner is appended to Pinners and, when an era is active,
\* credited exactly one point for the asset in the active era.
C16_AlreadyPinnedWhenQueuedAndPinned ==
    [][last'.call = "submit_ipfs_pin_result" =>
          LET pinner == last'.id
              asset_id == last'.asset
              candidate == Contains(QueuedStorageProviders[asset_id], pinner)
              pinned == Contains(Pinners[asset_id], pinner)
          IN  /\ ~candidate => last'.res = "NotACandidate"
              /\ candidate /\ pinned => last'.res = "AlreadyPinned"
              /\ last'.res # "Ok" => storage' = storage
              /\ last'.res = "Ok" =>
                     /\ candidate /\ ~pinned
                     /\ Pinners' = [Pinners EXCEPT ![asset_id] = Append(@, pinner)]
                     /\ PointsCreditedOnce(asset_id, pinner)]_vars

\* A queued account was confirmed as a pinner during an active era and holds
\* the point.
C16_Witness ==
    /\ last.call = "submit_ipfs_pin_result"
    /\ last.res = "Ok"
    /\ ActiveEra # None
    /\ Contains(Pinners[last.asset], last.id)
    /\ last.id \in DOMAIN ErasRewardPoints[<<ActiveEra[1], last.asset>>].individual
    /\ ErasRewardPoints[<<ActiveEra[1], last.asset>>].individual[last.id] = 1

\* C17: every account reported since the previous new_session is absent from
\* the list the next new_session returns; that list is Validators as the hook
\* leaves it, CurrentEra holds the hook's index, and OfflineValidators is
\* empty after every new_session.
C17_ReportedGoneAtNewSession ==
    [][last'.call = "new_session" =>
          /\ last'.returned = Some(Validators')
          /\ \A a \in Range(OfflineValidators) : ~Contains(last'.returned[1], a)
          /\ CurrentEra' = Some(last'.index)
          /\ OfflineValidators' = <<>>]_vars

\* A new_session took a reported validator out of the list it returned.
C17_Witness ==
    /\ last.call = "new_session"
    /\ last.removed > 0
    /\ last.returned = Some(Validators)
    /\ CurrentEra = Some(last.index)
    /\ OfflineValidators = <<>>

\* The validators of the state that end_session(era) finds removable: absent
\* from the era's participation with a counter above MaxDeadSession.
Removable(era) ==
    {a \in Range(Validators) :
        ~Contains(SessionParticipation[era], a) /\ UnproductiveSessions[a] > MaxDeadSession}

\* C18: the sweep of end_session(era) neither removes nor counts a validator
\* of SessionParticipation[era]; it removes removable validators only, and only
\* while the list keeps MinAuthorities members, however many are removable;
\* a removal skipped for the floor leaves that validator in Validators with
\* its counter as it was, and Validators as it was when every removal is
\* skipped.
C18_SweepSparesParticipantsAndFloor ==
    [][last'.call = "end_session" =>
          LET era == last'.index
              removable == Removable(era)
              gone == {a \in Range(Validators) : ~Contains(Validators', a)}
              spare == IF Len(Validators) > MinAuthorities
                       THEN Len(Validators) - MinAuthorities ELSE 0
          IN  /\ \A a \in Range(Validators) :
                     Contains(SessionParticipation[era], a) =>
                         /\ Contains(Validators', a)
                         /\ UnproductiveSessions'[a] = UnproductiveSessions[a]
              /\ gone \subseteq removable
              /\ Validators' = RetainNotIn(Validators, gone)
              /\ Cardinality(gone) = IF Cardinality(removable) < spare
                                     THEN Cardinality(removable) ELSE spare
              /\ gone # {} => Len(Validators') >= MinAuthorities
              /\ \A a \in removable : UnproductiveSessions'[a] = UnproductiveSessions[a]
              /\ spare = 0 => Validators' = Validators]_vars

\* A sweep found several validators removable, removed one and skipped the
\* others for the floor.
C18_Witness ==
    /\ last.call = "end_session"
    /\ last.removed = 1
    /\ Len(Validators) = MinAuthorities
    /\ \A a \in Range(Validators) :
           /\ ~Contains(SessionParticipation[last.index], a)
           /\ UnproductiveSessions[a] > MaxDeadSession

\* C19: UnproductiveSessions[a] decreases only in a step of add_validator(a)
\* or add_validator_again(a) that returns Ok, and then to 0; an
\* end_session(era) with a in SessionParticipation[era] leaves the counter of a
\* as it was.
C19_CounterResetOnlyBySuccessfulAdd ==
    [][\A a \in Accounts :
          /\ UnproductiveSessions'[a] < UnproductiveSessions[a] =>
                 /\ last'.call \in {"add_validator", "add_validator_again"}
                 /\ last'.id = a
                 /\ last'.res = "Ok"
                 /\ UnproductiveSessions'[a] = 0
          /\ last'.call = "end_session" /\ Contains(SessionParticipation[last'.index], a) =>
                 UnproductiveSessions'[a] = UnproductiveSessions[a]]_vars

\* C20: after every new_session the candidate queue of every asset is empty
\* and the storage providers of every asset are the providers it had, in
\* their order, followed by the candidates of its queue that are among its
\* pinners, in queue order, and by nobody else.
C20_ProvidersGainQueuedPinners ==
    [][last'.call = "new_session" =>
          \A a \in Assets :
              /\ QueuedStorageProviders'[a] = <<>>
              /\ StorageProviders'[a] =
                     StorageProviders[a] \o
                     SelectSeq(QueuedStorageProviders[a], LAMBDA c : Contains(Pinners[a], c))
              /\ Pinners'[a] = Pinners[a]]_vars

\* A new_session added one provider to an asset that already had one, and
\* left every queue empty.
C20_Witness ==
    /\ last.call = "new_session"
    /\ last.promoted = 1
    /\ \E a \in Assets : Len(StorageProviders[a]) = 2
    /\ \A a \in Assets : QueuedStorageProviders[a] = <<>>

\* The individual points of account k in a record of ErasRewardPoints.
IndividualPoints(era_rewards, k) ==
    IF k \in DOMAIN era_rewards.individual THEN era_rewards.individual[k] ELSE 0

\* C21: with ActiveEra = e, a successful submit_ipfs_add_results credits every
\* account of Validators, a successful submit_ipfs_pin_result the pinner and
\* submit_rpc_ready every account of StorageProviders[asset]: the individual
\* points of each credited account rise by exactly 1 under (e, asset), those
\* of the others stay, the total rises by the number of credited accounts,
\* the credited accounts are appended to SessionParticipation[e], and the
\* records of every other era and asset and the participation of every other
\* era are unchanged.
C21_CreditTouchesOneRecord ==
    [][ActiveEra # None /\ last'.call \in CreditCalls /\ last'.res = "Ok" =>
          LET e == ActiveEra[1]
              asset_id == last'.asset
              credited == IF last'.call = "submit_ipfs_add_results" THEN Validators
                          ELSE IF last'.call = "submit_ipfs_pin_result" THEN <<last'.id>>
                          ELSE StorageProviders[asset_id]
              before == ErasRewardPoints[<<e, asset_id>>]
              after == ErasRewardPoints'[<<e, asset_id>>]
          IN  /\ \A k \in Accounts :
                     IndividualPoints(after, k) =
                         IndividualPoints(before, k) + (IF Contains(credited, k) THEN 1 ELSE 0)
              /\ after.total = before.total + Len(credited)
              /\ SessionParticipation'[e] = SessionParticipation[e] \o credited
              /\ \A other \in Eras \X Assets :
                     other # <<e, asset_id>> => ErasRewardPoints'[other] = ErasRewardPoints[other]
              /\ \A other \in Eras :
                     other # e => SessionParticipation'[other] = SessionParticipation[other]]_vars

\* submit_ipfs_add_results has credited three validators in the active era.
C21_Witness ==
    /\ last.call = "submit_ipfs_add_results"
    /\ last.res = "Ok"
    /\ ActiveEra # None
    /\ Len(Validators) = 3
    /\ SessionParticipation[ActiveEra[1]] = Validators
    /\ ErasRewardPoints[<<ActiveEra[1], last.asset>>].total = 3

\* The run of connection_housekeeping that a step has just made.
Housekept == ocw'.status = "housekeeping" /\ ocw' # ocw

\* C22: a run of connection_housekeeping whose Identity request succeeded, on
\* a node that can sign and whose public key is no bootstrap node yet, hands
\* submit_ipfs_identity to the pool whatever the Connect requests returned.
C22_IdentitySubmittedWhateverConnect ==
    [][Housekept =>
          LET run == ocw'.log[1]
          IN  (/\ run.reqs[1][3] = "Ok"
               /\ NodeKey \notin DOMAIN BootstrapNodes
               /\ ocw'.can_sign) => run.tx = "submit_ipfs_identity"]_vars

\* The Connect requests of a run.
Connects(run) == SelectSeq(run.reqs, LAMBDA r : r[1] = "Connect")

\* C23: a run of connection_housekeeping sends at most two Connect requests,
\* the second only after the first did not succeed, and to another address
\* than the first when the bootstrap entry lists at least two addresses.
C23_FallbackToSecondAddress ==
    [][Housekept =>
          LET run == ocw'.log[1]
              connects == Connects(run)
          IN  /\ Len(connects) <= 2
              /\ Len(connects) = 2 =>
                     /\ connects[1][3] # "Ok"
                     /\ Len(BootstrapNodes[run.bootstrap_node[1]]) >= 2 =>
                            connects[2][2] # connects[1][2]]_vars

\* C24: SubstrateIpfsBridge is one-to-one: no two accounts are mapped to the
\* same ipfs public key.
C24_BridgeOneToOne ==
    \A a, b \in Accounts :
        (SubstrateIpfsBridge[a] # NoKey /\ SubstrateIpfsBridge[a] = SubstrateIpfsBridge[b]) => a = b

\* Every request of the list was answered Ok.
AllOk(reqs) == \A i \in 1..Len(reqs) : reqs[i][2] = "Ok"

\* The request kinds of a list.
Kinds(reqs) == [i \in 1..Len(reqs) |-> reqs[i][1]]

C26_ValidatorsAreApproved ==
    \A a \in Range(Validators) : Contains(ApprovedValidators, a)

\* A genesis validator was taken out of a list of three and has rejoined,
\* approved all along.
C26_Witness ==
    /\ last.call = "add_validator_again"
    /\ last.res = "Ok"
    /\ Len(Validators) = 3
    /\ Validators[3] # "C"
    /\ Range(Validators) = Range(ApprovedValidators)

\* C27: UnproductiveSessions[a] <= MaxDeadSession + 1 for every account a.
C27_CounterBounded ==
    \A a \in Accounts : UnproductiveSessions[a] <= MaxDeadSession + 1

\* The genesis validators, never removed and never participating, were
\* counted up to MaxDeadSession + 1, and a later sweep, blocked by the floor,
\* left them at that.
C27_Witness ==
    /\ last.call = "end_session"
    /\ last.index > MaxDeadSession
    /\ last.removed = 0
    /\ Len(ApprovedValidators) = MinAuthorities
    /\ ParticipationEntries(MaxEra) = 0
    /\ \A a \in Range(Validators) : UnproductiveSessions[a] = MaxDeadSession + 1

\* No element occurs twice in the sequence.
IsInjective(s) == \A i, j \in 1..Len(s) : s[i] = s[j] => i = j

\* C28: for every asset, the candidate queue and the storage providers share
\* no account, neither holds an account twice, every storage provider is a
\* pinner, and every pinner is a candidate or a storage provider.
C28_PoolListsConsistent ==
    \A a \in Assets :
        /\ Range(QueuedStorageProviders[a]) \cap Range(StorageProviders[a]) = {}
        /\ IsInjective(QueuedStorageProviders[a])
        /\ IsInjective(StorageProviders[a])
        /\ Range(StorageProviders[a]) \subseteq Range(Pinners[a])
        /\ Range(Pinners[a]) \subseteq
               Range(QueuedStorageProviders[a]) \cup Range(StorageProviders[a])

\* An asset has a storage provider and a queued candidate that has pinned.
C28_Witness ==
    \E a \in Assets :
        /\ Len(StorageProviders[a]) = 1
        /\ Len(QueuedStorageProviders[a]) = 1
        /\ Len(Pinners[a]) = 2

\* s is an initial part of t.
IsPrefix(s, t) == Len(s) <= Len(t) /\ SubSeq(t, 1, Len(s)) = s

Earned(points, e, k) == \E a \in Assets : IndividualPoints(points[<<e, a>>], k) > 0

\* C30: the participation lists and the points start empty, and every step
\* that writes either leaves them so that for every era e the accounts of
\* SessionParticipation[e] are the accounts that hold a point of era e for
\* some asset; so the sweep of end_session(e) leaves alone the validators that
\* earned a point in era e, and counts every other validator or, once its
\* counter is above MaxDeadSession, removes it where the floor allows.
C30_ParticipationIsPoints ==
    [][/\ rewardVars' # rewardVars =>
              \A e \in Eras, k \in Accounts :
                  Contains(SessionParticipation'[e], k) <=> Earned(ErasRewardPoints', e, k)
       /\ last'.call = "end_session" =>
              \A v \in Range(Validators) :
                  IF Earned(ErasRewardPoints, last'.index, v)
                  THEN /\ UnproductiveSessions'[v] = UnproductiveSessions[v]
                       /\ Contains(Validators', v)
                  ELSE IF UnproductiveSessions[v] <= MaxDeadSession
                  THEN /\ UnproductiveSessions'[v] = UnproductiveSessions[v] + 1
                       /\ Contains(Validators', v)
                  ELSE \/ ~Contains(Validators', v)
                       \/ Len(Validators') <= MinAuthorities]_vars

\* A sweep passed over a validator with a point in the era and counted one
\* without.
C30_Witness ==
    /\ last.call = "end_session"
    /\ \E v, w \in Range(Validators) :
           /\ Earned(ErasRewardPoints, last.index, v)
           /\ Contains(SessionParticipation[last.index], v)
           /\ UnproductiveSessions[v] = 0
           /\ ~Earned(ErasRewardPoints, last.index, w)
           /\ UnproductiveSessions[w] = 1

\* How often account k occurs in the sequence.
Occurrences(s, k) == Len(SelectSeq(s, LAMBDA x : x = k))

\* The points account k holds for the asset, over all eras.
RECURSIVE PointsUpTo(_, _, _, _)
PointsUpTo(points, era, asset_id, k) ==
    IF era < 0 THEN 0
    ELSE IndividualPoints(points[<<era, asset_id>>], k) + PointsUpTo(points, era - 1, asset_id, k)

\* C31 as stated: once a submit_ipfs_pin_result for a pinner that is queued or
\* pinned for the asset has been applied, the pinner is in Pinners exactly
\* once and holds exactly one point for the asset, and a submission for a
\* pinner that is in Pinners already is rejected with AlreadyPinned or
\* NotACandidate.
C31_PinnedOnceWithOnePoint ==
    [][(/\ last'.call = "submit_ipfs_pin_result"
        /\ \/ Contains(QueuedStorageProviders[last'.asset], last'.id)
           \/ Contains(Pinners[last'.asset], last'.id)) =>
          /\ Occurrences(Pinners'[last'.asset], last'.id) = 1
          /\ PointsUpTo(ErasRewardPoints', MaxEra, last'.asset, last'.id) = 1
          /\ Contains(Pinners[last'.asset], last'.id) =>
                 last'.res \in {"AlreadyPinned", "NotACandidate"}]_vars

\* C31: however many submit_ipfs_pin_result for the same asset and pinner are
\* applied, by whichever signers and in whatever order among the other calls,
\* the pinner is in Pinners at most once and holds at most one point for the
\* asset; the submission applied while the pinner is queued and not yet pinned
\* adds it and credits one point if an era is active and none otherwise; every
\* other submission is rejected with AlreadyPinned or NotACandidate and
\* changes no storage.
C31_PinnedAtMostOnce ==
    [][/\ \A a \in Assets :
              /\ Occurrences(Pinners'[a], "C") <= 1
              /\ PointsUpTo(ErasRewardPoints', MaxEra, a, "C") <= Occurrences(Pinners'[a], "C")
       /\ last'.call = "submit_ipfs_pin_result" =>
              LET asset_id == last'.asset
                  pinner == last'.id
              IN  IF /\ Contains(QueuedStorageProviders[asset_id], pinner)
                     /\ ~Contains(Pinners[asset_id], pinner)
                  THEN /\ last'.res = "Ok"
                       /\ Pinners' = [Pinners EXCEPT ![asset_id] = Append(@, pinner)]
                       /\ PointsUpTo(ErasRewardPoints', MaxEra, asset_id, pinner) =
                              PointsUpTo(ErasRewardPoints, MaxEra, asset_id, pinner) +
                              (IF ActiveEra = None THEN 0 ELSE 1)
                  ELSE /\ last'.res \in {"AlreadyPinned", "NotACandidate"}
                       /\ storage' = storage]_vars

\* A second signer's submission for a pinner that was added and credited in
\* an active era was rejected, and the pinner holds one point.
C31_Witness ==
    /\ last.call = "submit_ipfs_pin_result"
    /\ last.who = "B"
    /\ last.res = "AlreadyPinned"
    /\ ActiveEra # None
    /\ Occurrences(Pinners[last.asset], last.id) = 1
    /\ PointsUpTo(ErasRewardPoints, MaxEra, last.asset, last.id) = 1

====
